---------------------------- MODULE Spec2Model ----------------------------
(***************************************************************************)
(* ValVoice (src/ValVoice.cpp): the narration request pipeline, the        *)
(* settings file and the block list.                                       *)
(*                                                                         *)
(* Text is modelled as sequences of character codes (wchar_t / char        *)
(* values), files as sequences of bytes, so that the stream conversions    *)
(* the program applies on the way to and from disk are computed, not       *)
(* assumed.                                                                *)
(*                                                                         *)
(* Five specifications share the variables:                                *)
(*   Spec          the narration pipeline of a running application         *)
(*   SettingsSpec  start-up, settings UI, export and load of the settings  *)
(*   BlockSpec     start-up and the block-list handlers                    *)
(*   OverlapSpec   overlapping requests whose calls all succeed            *)
(*   JsonSpec      the request body built for texts with special characters*)
(*                                                                         *)
(* Environment: a file may be missing when it is read.  Opening a file     *)
(* for writing fails only where the program reports the failure            *)
(* (ExportSettingsToFile, SaveAudioToFile); the silent `if (!ofs) return`  *)
(* of SaveBlockedIds and LogTtsError is taken to succeed.  Writing the      *)
(* audio payload may fail after the file was opened.                       *)
(***************************************************************************)
EXTENDS Integers, Sequences, FiniteSets, TLC

VARIABLES
    g_cartesiaApiKey,   \* std::string: sequence of char values 0..255
    workers,            \* the detached std::thread of each accepted Speak
    ttsFile,            \* tts_output.wav: [exists, data]
    errLog,             \* TTS_ErrorLog.txt: the lines appended so far
    lastSpeak,          \* what the last SpeakFromUI call read and decided
    g_userId,           \* WCHAR[64]: sequence of wchar_t values
    g_isPremium,
    g_pttKey,
    settingsFile,       \* ValVoiceSettings.txt: [exists, data]
    running,            \* the process is past InitInstance
    settingsTrace,      \* history: last settings operation and its snapshots
    g_blockedIds,       \* std::vector<std::wstring>
    blockFile,          \* BlockedIds.txt: [exists, data]
    listBox,            \* the entries of IDC_BLOCK_LIST, by index
    lbSel,              \* LB_GETCURSEL of IDC_BLOCK_LIST (LB_ERR: none)
    blockTrace          \* history: the last block-list handlers and snapshots

speakVars    == <<workers, ttsFile, errLog, lastSpeak>>
settingsVars == <<g_userId, g_isPremium, g_pttKey, settingsFile, settingsTrace>>
blockVars    == <<g_blockedIds, blockFile, listBox, lbSel, blockTrace>>
vars == <<g_cartesiaApiKey, running, speakVars, settingsVars, blockVars>>

(***************************************************************************)
(* Bounds of the model.                                                    *)
(***************************************************************************)
MaxWorkers == 1     \* Speak requests accepted in one behaviour
MaxBody == 2        \* bytes in a response body
MaxList == 3        \* entries in the block list
MaxOverlap == 2     \* Speak requests that overlap in one behaviour
MaxText == 2        \* characters in a text whose request body is examined

Range(s) == {s[i] : i \in DOMAIN s}

NoFile == [exists |-> FALSE, data |-> <<>>]

\* std::codecvt_utf8<wchar_t> (line 130): one wchar_t to its UTF-8 bytes.
Utf8Char(c) ==
    IF c < 128 THEN <<c>>
    ELSE IF c < 2048 THEN <<192 + (c \div 64), 128 + (c % 64)>>
    ELSE <<224 + (c \div 4096), 128 + ((c \div 64) % 64), 128 + (c % 64)>>

RECURSIVE Utf8(_)
Utf8(w) == IF w = <<>> THEN <<>> ELSE Utf8Char(Head(w)) \o Utf8(Tail(w))

(***************************************************************************)
(* Narration pipeline                                                      *)
(***************************************************************************)

\* voiceProfiles[] and kVoiceCount = sizeof(voiceProfiles)/sizeof(voiceProfiles[0])
voiceProfiles ==
    << [displayName |-> "ReynaVoice",
        cartesiaVoiceId |-> "cedb5081-4c32-4e5a-818f-f3b3bc0b2401"] >>

kVoiceCount == Len(voiceProfiles)

\* The initializer of g_cartesiaApiKey, "sk_car_..." abbreviated to "sk".
DefaultApiKey == <<115, 107>>

\* What GetDlgItemTextW can report for IDC_TEXT_INPUT: "", " ", "hi".
Texts == { <<>>, <<32>>, <<104, 105>> }

\* What CB_GETCURSEL can report: CB_ERR (-1), valid indexes, indexes past the end.
Selections == (0 - 1) .. kVoiceCount

\* What the settings tab's API-key edit control is changed to while requests
\* run: cleared, or the key typed in again.
ApiKeyTexts == { <<>>, DefaultApiKey }

\* Status codes the server answers with.
StatusCodes == {200, 204, 404}

IsSpace(c) == c \in {32, 9, 10, 13}

IsBlank(text) == \A i \in DOMAIN text : IsSpace(text[i])

\* The body the server sends to worker w: n bytes that name their request.
Body(w, n) == [i \in 1..n |-> 10 * w + i]

\* LogTtsError: one line "[date time] context: message".
LogLine(context, message) == [context |-> context, message |-> message]

LogTtsError(log, context, message) == Append(log, LogLine(context, message))

\* SpeakFromUI line 185: the empty-input test.
RejectsText(text) == Len(text) = 0

\* SpeakFromUI line 193: the fallback to the first voice.
VoiceIndexMutant(sel) == IF sel < 0 \/ sel > kVoiceCount THEN 0 ELSE sel

VoiceIndex(sel) == IF sel < 0 \/ sel >= kVoiceCount THEN 0 ELSE sel

\* voiceProfiles[sel].cartesiaVoiceId; a read past the array yields garbage.
VoiceIdAt(idx) ==
    IF idx \in 0 .. (kVoiceCount - 1)
    THEN voiceProfiles[idx + 1].cartesiaVoiceId
    ELSE "out-of-bounds"

\* SendTtsRequest line 759: the status test.
StatusIsErrorMutant(statusCode) == statusCode >= 400

StatusIsError(statusCode) == statusCode # 200

\* SendTtsRequest line 778: the empty-payload test.
PayloadIsEmptyMutant(audioData) == FALSE

PayloadIsEmpty(audioData) == Len(audioData) = 0

(***************************************************************************)
(* The request body (SendTtsRequest, lines 714-731)                        *)
(***************************************************************************)

\* The raw string up to the transcript: {, "model_id": "sonic-2", "transcript": "
JsonHead ==
    <<123, 10, 32, 32, 32, 32, 32, 32, 32, 32, 34, 109, 111, 100, 101,
      108, 95, 105, 100, 34, 58, 32, 34, 115, 111, 110, 105, 99, 45, 50,
      34, 44, 10, 32, 32, 32, 32, 32, 32, 32, 32, 34, 116, 114, 97, 110,
      115, 99, 114, 105, 112, 116, 34, 58, 32, 34>>

\* The raw string between the transcript and the voice id.
JsonMiddle ==
    <<34, 44, 10, 32, 32, 32, 32, 32, 32, 32, 32, 34, 118, 111, 105, 99,
      101, 34, 58, 32, 123, 10, 32, 32, 32, 32, 32, 32, 32, 32, 32, 32,
      32, 32, 34, 109, 111, 100, 101, 34, 58, 32, 34, 105, 100, 34, 44,
      10, 32, 32, 32, 32, 32, 32, 32, 32, 32, 32, 32, 32, 34, 105, 100,
      34, 58, 32, 34>>

\* The raw string after the voice id: output_format, language and the closing }.
JsonTail ==
    <<34, 10, 32, 32, 32, 32, 32, 32, 32, 32, 125, 44, 10, 32, 32, 32, 32,
      32, 32, 32, 32, 34, 111, 117, 116, 112, 117, 116, 95, 102, 111, 114,
      109, 97, 116, 34, 58, 32, 123, 10, 32, 32, 32, 32, 32, 32, 32, 32,
      32, 32, 32, 32, 34, 99, 111, 110, 116, 97, 105, 110, 101, 114, 34,
      58, 32, 34, 119, 97, 118, 34, 44, 10, 32, 32, 32, 32, 32, 32, 32,
      32, 32, 32, 32, 32, 34, 101, 110, 99, 111, 100, 105, 110, 103, 34,
      58, 32, 34, 112, 99, 109, 95, 102, 51, 50, 108, 101, 34, 44, 10, 32,
      32, 32, 32, 32, 32, 32, 32, 32, 32, 32, 32, 34, 115, 97, 109, 112,
      108, 101, 95, 114, 97, 116, 101, 34, 58, 32, 52, 52, 49, 48, 48, 10,
      32, 32, 32, 32, 32, 32, 32, 32, 125, 44, 10, 32, 32, 32, 32, 32, 32,
      32, 32, 34, 108, 97, 110, 103, 117, 97, 103, 101, 34, 58, 32, 34,
      101, 110, 34, 10, 32, 32, 32, 32, 125>>

\* The characters of a voice id of voiceProfiles (a wide string in the source).
VoiceIdChars(voiceId) ==
    IF voiceId = "cedb5081-4c32-4e5a-818f-f3b3bc0b2401"
    THEN
        <<99, 101, 100, 98, 53, 48, 56, 49, 45, 52, 99, 51, 50, 45, 52,
          101, 53, 97, 45, 56, 49, 56, 102, 45, 102, 51, 98, 51, 98, 99,
          48, 98, 50, 52, 48, 49>>
    ELSE <<63>>

\* WideToUtf8 (lines 231-237): WideCharToMultiByte(CP_UTF8) of each character.
WideToUtf8(wstr) == Utf8(wstr)

\* std::string json = R"(...)" + utf8Text + R"(...)" + utf8VoiceId + R"(...)"
JsonBody(text, voiceId) ==
    JsonHead \o WideToUtf8(text) \o JsonMiddle
        \o WideToUtf8(VoiceIdChars(voiceId)) \o JsonTail

Unused ==
    [pc |-> "unused", text |-> <<>>, voiceId |-> "", noKey |-> FALSE,
     steps |-> <<>>, body |-> <<>>, statusCode |-> 0, audioData |-> <<>>,
     ioError |-> "none", played |-> NoFile, outcome |-> "none"]

Step(w, name) == Append(workers[w].steps, name)

\* The worker ends; `outcome` names how.
Finish(w, name, outcome) ==
    [workers EXCEPT ![w].pc = "done", ![w].steps = Step(w, name),
                    ![w].outcome = outcome]

Goto(w, name, pc) ==
    [workers EXCEPT ![w].pc = pc, ![w].steps = Step(w, name)]

\* A SpeakFromUI that joins: it accepts a request only once every earlier
\* worker has ended.
SpeakFromUIMutant(text, sel) ==
    /\ running
    /\ \A v \in DOMAIN workers : workers[v].pc \in {"unused", "done"}
    /\ IF RejectsText(text)
       THEN /\ lastSpeak' = [text |-> text, sel |-> 0, idx |-> 0 - 1,
                             outcome |-> "EmptyInput", worker |-> 0]
            /\ UNCHANGED workers
       ELSE \E w \in DOMAIN workers :
            /\ workers[w].pc = "unused"
            /\ \A v \in 1..(w - 1) : workers[v].pc # "unused"
            /\ LET idx == VoiceIndex(sel) IN
               /\ workers' = [workers EXCEPT ![w] =
                     [Unused EXCEPT !.pc = "WinHttpOpen",
                                    !.text = text,
                                    !.voiceId = VoiceIdAt(idx),
                                    !.noKey = (g_cartesiaApiKey = <<>>)]]
               /\ lastSpeak' = [text |-> text, sel |-> sel, idx |-> idx,
                                outcome |-> "Dispatched", worker |-> w]
    /\ UNCHANGED <<g_cartesiaApiKey, running, ttsFile, errLog,
                   settingsVars, blockVars>>

\* SpeakFromUI (lines 182-222), on the UI thread.  A rejected call returns
\* before the combo box is read (line 192).
SpeakFromUI(text, sel) ==
    /\ running
    /\ IF RejectsText(text)
       THEN /\ lastSpeak' = [text |-> text, sel |-> 0, idx |-> 0 - 1,
                             outcome |-> "EmptyInput", worker |-> 0]
            /\ UNCHANGED workers
       ELSE \E w \in DOMAIN workers :
            /\ workers[w].pc = "unused"
            /\ \A v \in 1..(w - 1) : workers[v].pc # "unused"
            /\ LET idx == VoiceIndex(sel) IN
               /\ workers' = [workers EXCEPT ![w] =
                     [Unused EXCEPT !.pc = "WinHttpOpen",
                                    !.text = text,
                                    !.voiceId = VoiceIdAt(idx),
                                    !.noKey = (g_cartesiaApiKey = <<>>)]]
               /\ lastSpeak' = [text |-> text, sel |-> sel, idx |-> idx,
                                outcome |-> "Dispatched", worker |-> w]
    /\ UNCHANGED <<g_cartesiaApiKey, running, ttsFile, errLog,
                   settingsVars, blockVars>>

\* std::string(wApiKey.begin(), wApiKey.end()): each wchar_t cut to a char.
NarrowChars(w) == [i \in DOMAIN w |-> w[i] % 256]

\* std::wstring(key.begin(), key.end()): each (signed) char widened.
WidenChars(s) == [i \in DOMAIN s |-> IF s[i] < 128 THEN s[i] ELSE 65280 + s[i]]

\* TabDialogProc, IDC_SETTINGS_API_KEY / EN_CHANGE (lines 666-675).
ApiKeyChange(text) ==
    /\ running
    /\ g_cartesiaApiKey' = NarrowChars(text)
    /\ workers' = [w \in DOMAIN workers |->
                     [workers[w] EXCEPT !.noKey = @ /\ (NarrowChars(text) = <<>>)]]
    /\ settingsTrace' = [settingsTrace EXCEPT !.op = "ApiKeyChange",
                                              !.uiChanged = TRUE]
    /\ UNCHANGED <<running, ttsFile, errLog, lastSpeak, g_userId, g_isPremium,
                   g_pttKey, settingsFile, blockVars>>

WorkerFrame == UNCHANGED <<g_cartesiaApiKey, running, lastSpeak,
                           settingsVars, blockVars>>

\* CreateTtsConnection (lines 680-695): WinHttpOpen.
CreateTtsConnection_Open(w, ok) ==
    /\ workers[w].pc = "WinHttpOpen"
    /\ IF ok
       THEN /\ workers' = Goto(w, "WinHttpOpen", "WinHttpConnect")
            /\ UNCHANGED errLog
       ELSE /\ workers' = Finish(w, "WinHttpOpen", "ConnectionFailed")
            /\ errLog' = LogTtsError(
                   LogTtsError(errLog, "Connection", <<"Failed to create HTTP session">>),
                   "TTS", <<"Failed to connect to TTS server.">>)
    /\ UNCHANGED ttsFile
    /\ WorkerFrame

\* CreateTtsConnection: WinHttpConnect; a NULL handle ends the worker (line 219).
CreateTtsConnection_Connect(w, ok) ==
    /\ workers[w].pc = "WinHttpConnect"
    /\ IF ok
       THEN /\ workers' = Goto(w, "WinHttpConnect", "SendTtsRequest")
            /\ UNCHANGED errLog
       ELSE /\ workers' = Finish(w, "WinHttpConnect", "ConnectionFailed")
            /\ errLog' = LogTtsError(
                   LogTtsError(errLog, "Connection", <<"Failed to connect to Cartesia.ai">>),
                   "TTS", <<"Failed to connect to TTS server.">>)
    /\ UNCHANGED ttsFile
    /\ WorkerFrame

\* SendTtsRequest entry (lines 699-703): the API-key test, then the modal prompt.
SendTtsRequest_KeyCheck(w) ==
    /\ workers[w].pc = "SendTtsRequest"
    /\ IF g_cartesiaApiKey = <<>>
       THEN /\ workers' = [workers EXCEPT ![w].pc = "MessageBoxW"]
            /\ errLog' = LogTtsError(errLog, "API", <<"Cartesia API key not configured">>)
       ELSE /\ workers' = [workers EXCEPT ![w].pc = "WinHttpOpenRequest"]
            /\ UNCHANGED errLog
    /\ UNCHANGED ttsFile
    /\ WorkerFrame

\* The user dismisses "API Key Required"; SendTtsRequest returns false (215-217).
SendTtsRequest_Prompt(w) ==
    /\ workers[w].pc = "MessageBoxW"
    /\ workers' = Finish(w, "MessageBoxW", "MissingCredential")
    /\ errLog' = LogTtsError(errLog, "TTS", <<"TTS request failed.">>)
    /\ UNCHANGED ttsFile
    /\ WorkerFrame

\* WinHttpOpenRequest (lines 705-712).
SendTtsRequest_OpenRequest(w, ok) ==
    /\ workers[w].pc = "WinHttpOpenRequest"
    /\ IF ok
       THEN /\ workers' = Goto(w, "WinHttpOpenRequest", "WinHttpSendRequest")
            /\ UNCHANGED errLog
       ELSE /\ workers' = Finish(w, "WinHttpOpenRequest", "RequestFailed")
            /\ errLog' = LogTtsError(
                   LogTtsError(errLog, "Request", <<"Failed to create HTTP request">>),
                   "TTS", <<"TTS request failed.">>)
    /\ UNCHANGED ttsFile
    /\ WorkerFrame

\* The body worker w builds from its text and voice id (lines 714-731).
RequestBody(w) == JsonBody(workers[w].text, workers[w].voiceId)

\* WinHttpSendRequest (lines 739-746) is handed RequestBody(w).
SendTtsRequest_Send(w, ok) ==
    /\ workers[w].pc = "WinHttpSendRequest"
    /\ IF ok
       THEN /\ workers' = Goto(w, "WinHttpSendRequest", "WinHttpReceiveResponse")
            /\ UNCHANGED errLog
       ELSE /\ workers' = Finish(w, "WinHttpSendRequest", "RequestFailed")
            /\ errLog' = LogTtsError(
                   LogTtsError(errLog, "Request", <<"Failed to send HTTP request">>),
                   "TTS", <<"TTS request failed.">>)
    /\ UNCHANGED ttsFile
    /\ WorkerFrame

\* WinHttpReceiveResponse (lines 748-752) and the status test (lines 754-765):
\* the server answers `status` with a body of n bytes.
SendTtsRequest_Receive(w, ok, status, n) ==
    /\ workers[w].pc = "WinHttpReceiveResponse"
    /\ IF ~ok
       THEN /\ workers' = Finish(w, "WinHttpReceiveResponse", "ReceiveFailed")
            /\ errLog' = LogTtsError(
                   LogTtsError(errLog, "Response", <<"Failed to receive HTTP response">>),
                   "TTS", <<"TTS request failed.">>)
       ELSE IF StatusIsError(status)
       THEN /\ workers' = [Finish(w, "WinHttpReceiveResponse", "HttpStatus")
                             EXCEPT ![w].statusCode = status,
                                    ![w].steps = Append(@, "WinHttpQueryHeaders")]
            /\ errLog' = LogTtsError(
                   LogTtsError(errLog, "API", <<"HTTP Error: ", status>>),
                   "TTS", <<"TTS request failed.">>)
       ELSE /\ workers' = [Goto(w, "WinHttpReceiveResponse", "WinHttpQueryDataAvailable")
                             EXCEPT ![w].statusCode = status,
                                    ![w].body = Body(w, n),
                                    ![w].steps = Append(@, "WinHttpQueryHeaders")]
            /\ UNCHANGED errLog
    /\ UNCHANGED ttsFile
    /\ WorkerFrame

\* After the read loop (lines 776-783): the request handle is closed and an
\* empty payload is the "Received empty audio data" failure.
\* `failed`: the loop was left because the call `name` returned FALSE.
AfterReadLoop(w, name, failed) ==
    LET ioError == IF failed THEN name ELSE workers[w].ioError IN
    IF PayloadIsEmpty(workers[w].audioData)
    THEN /\ workers' = [Finish(w, name, "EmptyResponse")
                          EXCEPT ![w].ioError = ioError]
         /\ errLog' = LogTtsError(
                LogTtsError(errLog, "Response", <<"Received empty audio data">>),
                "TTS", <<"TTS request failed.">>)
    ELSE /\ workers' = [Goto(w, name, "SaveAudioToFile")
                          EXCEPT ![w].ioError = ioError]
         /\ UNCHANGED errLog

\* One pass of the read loop (lines 768-774); `steps` lists the successful
\* reads of one loop once.  avail: what
\* WinHttpQueryDataAvailable reports (-1: the call fails); readOk: WinHttpReadData.
SendTtsRequest_Read(w, avail, readOk) ==
    /\ workers[w].pc = "WinHttpQueryDataAvailable"
    /\ avail \in {0 - 1} \cup (IF workers[w].body = <<>> THEN {0}
                               ELSE 1 .. Len(workers[w].body))
    /\ IF avail <= 0
       THEN AfterReadLoop(w, "WinHttpQueryDataAvailable", avail < 0)
       ELSE IF ~readOk
       THEN AfterReadLoop(w, "WinHttpReadData", TRUE)
       ELSE /\ workers' = [workers EXCEPT
                  ![w].audioData = @ \o SubSeq(workers[w].body, 1, avail),
                  ![w].body = SubSeq(@, avail + 1, Len(@)),
                  ![w].steps = IF "WinHttpReadData" \in Range(@) THEN @
                               ELSE Append(@, "WinHttpReadData")]
            /\ UNCHANGED errLog
    /\ UNCHANGED ttsFile
    /\ WorkerFrame

\* SaveAudioToFile (lines 786-788): std::ofstream opens and truncates the file.
SaveAudioToFile_Open(w, ok) ==
    /\ workers[w].pc = "SaveAudioToFile"
    /\ IF ok
       THEN /\ workers' = Goto(w, "SaveAudioToFile", "ofs.write")
            /\ ttsFile' = [exists |-> TRUE, data |-> <<>>]
            /\ UNCHANGED errLog
       ELSE /\ workers' = Finish(w, "SaveAudioToFile", "FileWriteFailed")
            /\ errLog' = LogTtsError(errLog, "TTS", <<"Failed to save audio file.">>)
            /\ UNCHANGED ttsFile
    /\ WorkerFrame

\* Bytes written at offset 0 over what the file holds.
Overwrite(old, data) == data \o SubSeq(old, Len(data) + 1, Len(old))

\* SaveAudioToFile (lines 789-791): the payload is written and the stream
\* closed.  ok: whether the write went through; its result is not tested and
\* the function returns true either way.
SaveAudioToFile_Write(w, ok) ==
    /\ workers[w].pc = "ofs.write"
    /\ IF ok
       THEN /\ workers' = Goto(w, "ofs.write", "PlayAudioFile")
            /\ ttsFile' = [exists |-> TRUE,
                           data |-> Overwrite(ttsFile.data, workers[w].audioData)]
       ELSE /\ workers' = [Goto(w, "ofs.write", "PlayAudioFile")
                             EXCEPT ![w].ioError = "ofs.write"]
            /\ UNCHANGED ttsFile
    /\ UNCHANGED errLog
    /\ WorkerFrame

\* PlayAudioFile (lines 793-795): PlaySoundW is handed the file as it is now.
PlayAudioFile(w) ==
    /\ workers[w].pc = "PlayAudioFile"
    /\ workers' = [Goto(w, "PlayAudioFile", "DeleteAudioFile")
                     EXCEPT ![w].played = ttsFile]
    /\ UNCHANGED <<ttsFile, errLog>>
    /\ WorkerFrame

\* A worker that ends after playback and leaves the file behind.
DeleteAudioFileMutant(w) ==
    /\ workers[w].pc = "DeleteAudioFile"
    /\ workers' = Finish(w, "DeleteAudioFile", "Played")
    /\ UNCHANGED <<ttsFile, errLog>>
    /\ WorkerFrame

\* DeleteAudioFile (lines 807-809) and WinHttpCloseHandle (line 217).  DeleteFileW
\* fails while another worker's stream still has the file open.
DeleteAudioFile(w) ==
    /\ workers[w].pc = "DeleteAudioFile"
    /\ workers' = Finish(w, "DeleteAudioFile", "Played")
    /\ ttsFile' = IF \E v \in DOMAIN workers : v # w /\ workers[v].pc = "ofs.write"
                  THEN ttsFile
                  ELSE NoFile
    /\ UNCHANGED errLog
    /\ WorkerFrame

WorkerStep(w) ==
    \/ \E ok \in BOOLEAN : CreateTtsConnection_Open(w, ok)
    \/ \E ok \in BOOLEAN : CreateTtsConnection_Connect(w, ok)
    \/ SendTtsRequest_KeyCheck(w)
    \/ SendTtsRequest_Prompt(w)
    \/ \E ok \in BOOLEAN : SendTtsRequest_OpenRequest(w, ok)
    \/ \E ok \in BOOLEAN : SendTtsRequest_Send(w, ok)
    \/ \E ok \in BOOLEAN, status \in StatusCodes, n \in 0..MaxBody :
          SendTtsRequest_Receive(w, ok, status, n)
    \/ \E avail \in (0 - 1)..MaxBody, readOk \in BOOLEAN :
          SendTtsRequest_Read(w, avail, readOk)
    \/ \E ok \in BOOLEAN : SaveAudioToFile_Open(w, ok)
    \/ \E ok \in BOOLEAN : SaveAudioToFile_Write(w, ok)
    \/ PlayAudioFile(w)
    \/ DeleteAudioFile(w)

(***************************************************************************)
(* Settings file                                                           *)
(***************************************************************************)

\* The key prefixes of ValVoiceSettings.txt, as character codes.
kUserID == <<85, 115, 101, 114, 73, 68, 61>>                  \* "UserID="
kPremium == <<80, 114, 101, 109, 105, 117, 109, 61>>          \* "Premium="
kPTTKey == <<80, 84, 84, 75, 101, 121, 61>>                   \* "PTTKey="
kCartesiaApiKey ==                                            \* "CartesiaApiKey="
    <<67, 97, 114, 116, 101, 115, 105, 97, 65, 112, 105, 75, 101, 121, 61>>

SettingsRec(u, p, k, a) == [userId |-> u, isPremium |-> p, pttKey |-> k, apiKey |-> a]

\* The initializers of the globals (lines 44-46, 57): what a new process holds.
StaticSettings == SettingsRec(<<>>, FALSE, 86, DefaultApiKey)

Cur == SettingsRec(g_userId, g_isPremium, g_pttKey, g_cartesiaApiKey)

\* A std::wifstream with the default locale (lines 143, 174): every byte of the
\* file becomes one wchar_t of the same value.
ReadWide(data) == [i \in DOMAIN data |-> data[i]]

\* std::endl: the line break as the program reads it back (text mode).
Endl == <<10>>

\* ExportSettingsToFile (lines 131-137): the bytes written.
SettingsImage(cur) ==
       Utf8(kUserID \o cur.userId) \o Endl
    \o Utf8(kPremium \o (IF cur.isPremium THEN <<49>> ELSE <<48>>)) \o Endl
    \o Utf8(kPTTKey \o <<cur.pttKey % 65536>>) \o Endl
    \o Utf8(kCartesiaApiKey \o WidenChars(cur.apiKey)) \o Endl

\* The position of the first line break of `text`, 0 when it has none.
FirstBreak(text) ==
    IF \E i \in DOMAIN text : text[i] = 10
    THEN CHOOSE i \in DOMAIN text :
            text[i] = 10 /\ \A j \in 1..(i - 1) : text[j] # 10
    ELSE 0

\* The lines successive std::getline calls return until end of file.
RECURSIVE SplitLines(_)
SplitLines(text) ==
    IF text = <<>> THEN <<>>
    ELSE LET i == FirstBreak(text) IN
         IF i = 0 THEN <<text>>
         ELSE <<SubSeq(text, 1, i - 1)>> \o SplitLines(SubSeq(text, i + 1, Len(text)))

\* line.find(prefix) == 0
StartsWith(line, prefix) ==
    Len(line) >= Len(prefix) /\ SubSeq(line, 1, Len(prefix)) = prefix

\* line.substr(n)
Substr(line, n) == SubSeq(line, n + 1, Len(line))

\* The body of the loop of LoadSettingsFromFile (lines 148-162); the
\* CartesiaApiKey branch is commented out in the source.
ApplyLine(cur, line) ==
    IF StartsWith(line, kUserID)
    THEN [cur EXCEPT !.userId = Substr(line, 7)]
    ELSE IF StartsWith(line, kPremium)
    THEN [cur EXCEPT !.isPremium = (Substr(line, 8) = <<49>>)]
    ELSE IF StartsWith(line, kPTTKey)
    THEN IF Substr(line, 7) # <<>>
         THEN [cur EXCEPT !.pttKey = Substr(line, 7)[1]]
         ELSE cur
    ELSE cur

IsRecognized(line) ==
    StartsWith(line, kUserID) \/ StartsWith(line, kPremium) \/ StartsWith(line, kPTTKey)

\* A loader that gives up at the first line it does not recognize.
RECURSIVE LoadLinesMutant(_, _)
LoadLinesMutant(cur, lines) ==
    IF lines = <<>> \/ ~IsRecognized(Head(lines)) THEN cur
    ELSE LoadLinesMutant(ApplyLine(cur, Head(lines)), Tail(lines))

\* while (std::getline(ifs, line)) { ... } (lines 147-163)
RECURSIVE LoadLines(_, _)
LoadLines(cur, lines) ==
    IF lines = <<>> THEN cur
    ELSE LoadLines(ApplyLine(cur, Head(lines)), Tail(lines))

\* LoadSettingsFromFile (lines 142-164).
LoadSettingsFromFile(file, cur) ==
    IF ~file.exists THEN cur
    ELSE LoadLines(cur, SplitLines(ReadWide(file.data)))

\* What IDC_LOGIN_USERID can hold at IDOK: "", "a", "b=".
LoginUserIds == { <<>>, <<97>>, <<98, 61>> }

\* What the API-key edit control is changed to in the settings tab: "", "k".
SettingsApiKeyTexts == { <<>>, <<107>> }

\* ValVoiceSettings.txt as found at the first start: absent, or
\*   "UserID=b\nFoo=1\nPremium=1\nPTTKey=X\n"
\*   "CartesiaApiKey=k\n"
\*   "PTTKey=\nPremium=0\nVolume=7"
EnvSettingsFiles ==
    { NoFile,
      [exists |-> TRUE, data |->
          <<85, 115, 101, 114, 73, 68, 61, 98, 10, 70, 111, 111, 61, 49, 10,
            80, 114, 101, 109, 105, 117, 109, 61, 49, 10,
            80, 84, 84, 75, 101, 121, 61, 88, 10>>],
      [exists |-> TRUE, data |->
          <<67, 97, 114, 116, 101, 115, 105, 97, 65, 112, 105, 75, 101, 121, 61,
            107, 10>>],
      [exists |-> TRUE, data |->
          <<80, 84, 84, 75, 101, 121, 61, 10,
            80, 114, 101, 109, 105, 117, 109, 61, 48, 10,
            86, 111, 108, 117, 109, 101, 61, 55>>] }

NoExport == [valid |-> FALSE, vals |-> StaticSettings]

NoSettingsTrace ==
    [op |-> "none", preLoad |-> StaticSettings, exported |-> NoExport,
     uiChanged |-> FALSE]

\* ExportSettingsToFile (lines 124-140), from IDC_SYNC_SETTINGS (line 584).
\* ok: whether the std::wofstream could be opened.
ExportSettingsToFile(ok) ==
    /\ running
    /\ IF ok
       THEN /\ settingsFile' = [exists |-> TRUE, data |-> SettingsImage(Cur)]
            /\ settingsTrace' = [settingsTrace EXCEPT
                   !.op = "Export",
                   !.exported = [valid |-> TRUE, vals |-> Cur]]
       ELSE /\ UNCHANGED settingsFile
            /\ settingsTrace' = [settingsTrace EXCEPT !.op = "ExportFailed"]
    /\ UNCHANGED <<g_cartesiaApiKey, running, speakVars, g_userId, g_isPremium,
                   g_pttKey, blockVars>>

(***************************************************************************)
(* Block list                                                              *)
(***************************************************************************)

\* What a std::wofstream with the default locale (line 167) puts on disk: a
\* wchar_t up to 255 becomes the byte of that value; a larger one cannot be
\* converted, the stream goes bad and nothing after it is written.
WriteNarrow(text) ==
    IF \E i \in DOMAIN text : text[i] > 255
    THEN LET bad == CHOOSE i \in DOMAIN text :
                        text[i] > 255 /\ \A j \in 1..(i - 1) : text[j] <= 255
         IN  SubSeq(text, 1, bad - 1)
    ELSE text

\* for (const auto& id : g_blockedIds) ofs << id << std::endl; (line 169)
RECURSIVE BlockLines(_)
BlockLines(ids) ==
    IF ids = <<>> THEN <<>> ELSE Head(ids) \o Endl \o BlockLines(Tail(ids))

\* SaveBlockedIds (lines 166-170): the file it leaves.
SaveBlockedIds(ids) == [exists |-> TRUE, data |-> WriteNarrow(BlockLines(ids))]

NonEmptyLine(id) == id # <<>>

\* LoadBlockedIds (lines 172-180): the vector it leaves.
LoadBlockedIds(file) ==
    IF ~file.exists THEN <<>>
    ELSE SelectSeq(SplitLines(ReadWide(file.data)), NonEmptyLine)

\* LB_ADDSTRING on IDC_BLOCK_LIST.  The list box is declared in the resource
\* script, which is not among the sources: it is taken to be unsorted, so a new
\* string becomes the last entry.
LbAddString(list, s) == Append(list, s)

\* The list box after LB_ADDSTRING for every id in turn (lines 461-462).
RECURSIVE LbFill(_, _)
LbFill(list, ids) ==
    IF ids = <<>> THEN list ELSE LbFill(LbAddString(list, Head(ids)), Tail(ids))

\* LB_DELETESTRING: the list box without its entry at index sel.
LbDeleteString(list, sel) ==
    SubSeq(list, 1, sel) \o SubSeq(list, sel + 2, Len(list))

\* An erase that ignores the selection and drops the first entry.
EraseAtMutant(v, sel) == Tail(v)

\* g_blockedIds.erase(g_blockedIds.begin() + sel) (line 579).
EraseAt(v, sel) == SubSeq(v, 1, sel) \o SubSeq(v, sel + 2, Len(v))

\* What IDC_BLOCK_INPUT can hold: "", "a", "b", and a Cyrillic "Zhe" (U+0416).
BlockInputs == { <<>>, <<97>>, <<98>>, <<1046>> }

\* BlockedIds.txt as found at the first start: absent, "a\n", "\nb\n\na".
EnvBlockFiles ==
    { NoFile,
      [exists |-> TRUE, data |-> <<97, 10>>],
      [exists |-> TRUE, data |-> <<10, 98, 10, 10, 97>>] }

NoSave == [valid |-> FALSE, ids |-> <<>>]

NoBlockTrace ==
    [op |-> "none", ids0 |-> <<>>, file0 |-> <<>>, addThenRemove |-> FALSE,
     sel |-> 0 - 1, saved |-> NoSave]

\* WndProc, WM_COMMAND / IDC_BLOCK_ADD (lines 562-573).
BlockAdd(buf) ==
    /\ running
    /\ IF Len(buf) > 0
       THEN /\ Len(g_blockedIds) < MaxList
            /\ g_blockedIds' = Append(g_blockedIds, buf)
            /\ listBox' = LbAddString(listBox, buf)
            /\ blockFile' = SaveBlockedIds(g_blockedIds')
            /\ blockTrace' = [op |-> "BlockAdd",
                              ids0 |-> g_blockedIds,
                              file0 |-> LoadBlockedIds(blockFile),
                              addThenRemove |-> FALSE,
                              sel |-> 0 - 1,
                              saved |-> [valid |-> TRUE, ids |-> g_blockedIds']]
            /\ UNCHANGED lbSel
       ELSE UNCHANGED blockVars
    /\ UNCHANGED <<g_cartesiaApiKey, running, speakVars, settingsVars>>

\* The user clicks entry i of IDC_BLOCK_LIST.
LbSelect(i) ==
    /\ running
    /\ i \in 0 .. (Len(listBox) - 1)
    /\ lbSel' = i
    /\ UNCHANGED <<g_cartesiaApiKey, running, speakVars, settingsVars,
                   g_blockedIds, blockFile, listBox, blockTrace>>

\* WndProc, WM_COMMAND / IDC_BLOCK_REMOVE (lines 574-583).  Deleting the
\* selected entry leaves the list box without a selection.
BlockRemove ==
    /\ running
    /\ IF lbSel # 0 - 1
       THEN /\ listBox' = LbDeleteString(listBox, lbSel)
            /\ g_blockedIds' = EraseAt(g_blockedIds, lbSel)
            /\ blockFile' = SaveBlockedIds(g_blockedIds')
            /\ lbSel' = 0 - 1
            /\ blockTrace' = [op |-> "BlockRemove",
                              ids0 |-> blockTrace.ids0,
                              file0 |-> blockTrace.file0,
                              addThenRemove |-> (blockTrace.op = "BlockAdd"),
                              sel |-> lbSel,
                              saved |-> [valid |-> TRUE, ids |-> g_blockedIds']]
       ELSE UNCHANGED blockVars
    /\ UNCHANGED <<g_cartesiaApiKey, running, speakVars, settingsVars>>

(***************************************************************************)
(* Start and end of the process                                            *)
(***************************************************************************)

\* InitInstance (lines 306-364): the login dialog is accepted with IDOK
\* (LoginDlgProc, lines 644-650), then LoadBlockedIds and LoadSettingsFromFile;
\* creating the main dialog runs WndProc's WM_INITDIALOG: every tab dialog
\* reloads the block list (line 664), the list box is filled from g_blockedIds
\* (460-462) and the API-key edit control is set, which sends EN_CHANGE
\* (471-472, 668-674).
InitInstance(userId, premium) ==
    /\ ~running
    /\ LET afterLogin == SettingsRec(userId, premium, g_pttKey, g_cartesiaApiKey)
           loaded == LoadSettingsFromFile(settingsFile, afterLogin)
           ids == LoadBlockedIds(blockFile)
       IN  /\ g_userId' = loaded.userId
           /\ g_isPremium' = loaded.isPremium
           /\ g_pttKey' = loaded.pttKey
           /\ g_cartesiaApiKey' = NarrowChars(WidenChars(loaded.apiKey))
           /\ g_blockedIds' = ids
           /\ listBox' = LbFill(<<>>, ids)
           /\ lbSel' = 0 - 1
           /\ settingsTrace' = [op |-> "InitInstance", preLoad |-> afterLogin,
                                exported |-> settingsTrace.exported,
                                uiChanged |-> FALSE]
           /\ blockTrace' = [NoBlockTrace EXCEPT !.op = "InitInstance",
                                                 !.saved = blockTrace.saved]
    /\ running' = TRUE
    /\ UNCHANGED <<speakVars, settingsFile, blockFile>>

\* The message loop ends (lines 281-289) and the process exits: a later start
\* finds the globals at their initializers and the files as they were left.
ExitApp ==
    /\ running
    /\ running' = FALSE
    /\ g_userId' = StaticSettings.userId
    /\ g_isPremium' = StaticSettings.isPremium
    /\ g_pttKey' = StaticSettings.pttKey
    /\ g_cartesiaApiKey' = StaticSettings.apiKey
    /\ g_blockedIds' = <<>>
    /\ listBox' = <<>>
    /\ lbSel' = 0 - 1
    /\ settingsTrace' = [settingsTrace EXCEPT !.op = "Exit"]
    /\ blockTrace' = [blockTrace EXCEPT !.op = "Exit"]
    /\ UNCHANGED <<speakVars, settingsFile, blockFile>>


\* The running application of a fresh installation: InitInstance has run with
\* no settings file and no block-list file.
Init ==
    /\ g_cartesiaApiKey = DefaultApiKey
    /\ running = TRUE
    /\ workers = [w \in 1..MaxWorkers |-> Unused]
    /\ ttsFile = NoFile
    /\ errLog = <<>>
    /\ lastSpeak = [text |-> <<>>, sel |-> 0, idx |-> 0 - 1,
                    outcome |-> "none", worker |-> 0]
    /\ g_userId = <<>>
    /\ g_isPremium = FALSE
    /\ g_pttKey = 86
    /\ settingsFile = NoFile
    /\ settingsTrace = NoSettingsTrace
    /\ g_blockedIds = <<>>
    /\ blockFile = NoFile
    /\ listBox = <<>>
    /\ lbSel = 0 - 1
    /\ blockTrace = NoBlockTrace

Next ==
    \/ \E text \in Texts, sel \in Selections : SpeakFromUI(text, sel)
    \/ \E text \in ApiKeyTexts : ApiKeyChange(text)
    \/ \E w \in DOMAIN workers : WorkerStep(w)

Spec == Init /\ [][Next]_vars

\* A process about to start, with whatever settings file the disk holds.
SettingsInit ==
    /\ g_cartesiaApiKey = StaticSettings.apiKey
    /\ running = FALSE
    /\ workers = [w \in 1..MaxWorkers |-> Unused]
    /\ ttsFile = NoFile
    /\ errLog = <<>>
    /\ lastSpeak = [text |-> <<>>, sel |-> 0, idx |-> 0 - 1,
                    outcome |-> "none", worker |-> 0]
    /\ g_userId = StaticSettings.userId
    /\ g_isPremium = StaticSettings.isPremium
    /\ g_pttKey = StaticSettings.pttKey
    /\ settingsFile \in EnvSettingsFiles
    /\ settingsTrace = NoSettingsTrace
    /\ g_blockedIds = <<>>
    /\ blockFile = NoFile
    /\ listBox = <<>>
    /\ lbSel = 0 - 1
    /\ blockTrace = NoBlockTrace

SettingsNext ==
    \/ \E userId \in LoginUserIds, premium \in BOOLEAN : InitInstance(userId, premium)
    \/ \E text \in SettingsApiKeyTexts : ApiKeyChange(text)
    \/ \E ok \in BOOLEAN : ExportSettingsToFile(ok)
    \/ ExitApp

SettingsSpec == SettingsInit /\ [][SettingsNext]_vars

\* A process about to start, with whatever block-list file the disk holds.
BlockInit ==
    /\ g_cartesiaApiKey = StaticSettings.apiKey
    /\ running = FALSE
    /\ workers = [w \in 1..MaxWorkers |-> Unused]
    /\ ttsFile = NoFile
    /\ errLog = <<>>
    /\ lastSpeak = [text |-> <<>>, sel |-> 0, idx |-> 0 - 1,
                    outcome |-> "none", worker |-> 0]
    /\ g_userId = StaticSettings.userId
    /\ g_isPremium = StaticSettings.isPremium
    /\ g_pttKey = StaticSettings.pttKey
    /\ settingsFile = NoFile
    /\ settingsTrace = NoSettingsTrace
    /\ g_blockedIds = <<>>
    /\ blockFile \in EnvBlockFiles
    /\ listBox = <<>>
    /\ lbSel = 0 - 1
    /\ blockTrace = NoBlockTrace

BlockNext ==
    \/ InitInstance(<<>>, FALSE)
    \/ \E buf \in BlockInputs : BlockAdd(buf)
    \/ \E i \in 0 .. (MaxList - 1) : LbSelect(i)
    \/ BlockRemove
    \/ ExitApp

BlockSpec == BlockInit /\ [][BlockNext]_vars

\* Overlapping requests: the running application with room for MaxOverlap
\* workers, a server that answers every request with status 200 and a body
\* of 1..MaxBody bytes, and calls that all succeed.
OverlapInit ==
    /\ g_cartesiaApiKey = DefaultApiKey
    /\ running = TRUE
    /\ workers = [w \in 1..MaxOverlap |-> Unused]
    /\ ttsFile = NoFile
    /\ errLog = <<>>
    /\ lastSpeak = [text |-> <<>>, sel |-> 0, idx |-> 0 - 1,
                    outcome |-> "none", worker |-> 0]
    /\ g_userId = <<>>
    /\ g_isPremium = FALSE
    /\ g_pttKey = 86
    /\ settingsFile = NoFile
    /\ settingsTrace = NoSettingsTrace
    /\ g_blockedIds = <<>>
    /\ blockFile = NoFile
    /\ listBox = <<>>
    /\ lbSel = 0 - 1
    /\ blockTrace = NoBlockTrace

\* The next call of worker w's lambda (lines 201-221) on the path where every
\* call succeeds; each available chunk is the rest of the body.
OverlapStep(w) ==
    \/ CreateTtsConnection_Open(w, TRUE)
    \/ CreateTtsConnection_Connect(w, TRUE)
    \/ SendTtsRequest_KeyCheck(w)
    \/ SendTtsRequest_OpenRequest(w, TRUE)
    \/ SendTtsRequest_Send(w, TRUE)
    \/ \E n \in 1..MaxBody : SendTtsRequest_Receive(w, TRUE, 200, n)
    \/ SendTtsRequest_Read(w, Len(workers[w].body), TRUE)
    \/ SaveAudioToFile_Open(w, TRUE)
    \/ SaveAudioToFile_Write(w, TRUE)
    \/ PlayAudioFile(w)
    \/ DeleteAudioFile(w)

OverlapNext ==
    \/ SpeakFromUI(<<104, 105>>, 0)
    \/ \E w \in DOMAIN workers : OverlapStep(w)

OverlapSpec == OverlapInit /\ [][OverlapNext]_vars

\* The request body of one request: the running application, texts of up to
\* MaxText characters drawn from 'a', '"', '\', a line break and e-acute, and
\* a worker that runs up to the call that sends the body.
JsonAlphabet == {97, 34, 92, 10, 233}

JsonTexts == UNION { [1..n -> JsonAlphabet] : n \in 1..MaxText }

JsonInit ==
    /\ g_cartesiaApiKey = DefaultApiKey
    /\ running = TRUE
    /\ workers = <<Unused>>
    /\ ttsFile = NoFile
    /\ errLog = <<>>
    /\ lastSpeak = [text |-> <<>>, sel |-> 0, idx |-> 0 - 1,
                    outcome |-> "none", worker |-> 0]
    /\ g_userId = <<>>
    /\ g_isPremium = FALSE
    /\ g_pttKey = 86
    /\ settingsFile = NoFile
    /\ settingsTrace = NoSettingsTrace
    /\ g_blockedIds = <<>>
    /\ blockFile = NoFile
    /\ listBox = <<>>
    /\ lbSel = 0 - 1
    /\ blockTrace = NoBlockTrace

\* The worker's calls up to WinHttpSendRequest (lines 202-207, 699-746).
JsonStep(w) ==
    \/ CreateTtsConnection_Open(w, TRUE)
    \/ CreateTtsConnection_Connect(w, TRUE)
    \/ SendTtsRequest_KeyCheck(w)
    \/ SendTtsRequest_OpenRequest(w, TRUE)
    \/ \E ok \in BOOLEAN : SendTtsRequest_Send(w, ok)

JsonNext ==
    \/ \E text \in JsonTexts : SpeakFromUI(text, 0)
    \/ \E w \in DOMAIN workers : JsonStep(w)

JsonSpec == JsonInit /\ [][JsonNext]_vars

(***************************************************************************)
(* Claims about the narration pipeline (checked under Spec)                *)
(***************************************************************************)

Called(w, name) == name \in Range(workers[w].steps)

NetworkCalls == {"WinHttpOpen", "WinHttpConnect", "WinHttpOpenRequest",
                 "WinHttpSendRequest", "WinHttpReceiveResponse"}

FileCalls == {"SaveAudioToFile", "ofs.write", "PlayAudioFile", "DeleteAudioFile"}

\* SendTtsRequest returned true to the worker (line 207).
ReturnedTrue(w) ==
    \/ workers[w].pc \in {"SaveAudioToFile", "ofs.write", "PlayAudioFile",
                          "DeleteAudioFile"}
    \/ workers[w].outcome \in {"FileWriteFailed", "Played"}

\* C1: a request dispatched while the API key is empty (and staying empty)
\* makes no WinHTTP call and no file call at all, and ends as the
\* missing-credential failure.
C1_NoNetworkWithoutKey ==
    \A w \in DOMAIN workers :
        workers[w].noKey =>
            /\ \A name \in NetworkCalls \cup FileCalls : ~Called(w, name)
            /\ workers[w].pc = "done" => workers[w].outcome = "MissingCredential"

\* C2: SpeakFromUI rejects every empty or whitespace-only text as empty input,
\* and no worker ever runs for such a text.
C2_BlankTextRejected ==
    /\ (lastSpeak.outcome # "none" /\ IsBlank(lastSpeak.text))
          => lastSpeak.outcome = "EmptyInput"
    /\ \A w \in DOMAIN workers :
          workers[w].pc # "unused" => ~IsBlank(workers[w].text)

\* C3: once the status of the response is known to be other than 200, the
\* request has failed with no payload, the log holds "API: HTTP Error: <code>"
\* with that code and "TTS request failed.", and the worker has neither
\* written the audio file nor started playback.
C3_NonOkStatusFails ==
    \A w \in DOMAIN workers :
        (Called(w, "WinHttpQueryHeaders") /\ workers[w].statusCode # 200) =>
            /\ workers[w].pc = "done"
            /\ workers[w].outcome = "HttpStatus"
            /\ workers[w].audioData = <<>>
            /\ LogLine("API", <<"HTTP Error: ", workers[w].statusCode>>)
                  \in Range(errLog)
            /\ LogLine("TTS", <<"TTS request failed.">>) \in Range(errLog)
            /\ \A name \in FileCalls : ~Called(w, name)
            /\ workers[w].played = NoFile

\* C3 witness: a 2xx status other than 200 has been answered and refused.
C3_Witness ==
    \E w \in DOMAIN workers :
        /\ workers[w].statusCode = 204
        /\ workers[w].outcome = "HttpStatus"

\* C4: whenever SendTtsRequest has returned true the payload is non-empty, and
\* a request that got status 200 and ended its read loop with no byte is the
\* logged empty-response failure, with no file written and nothing played.
C4_SuccessHasPayload ==
    \A w \in DOMAIN workers :
        /\ ReturnedTrue(w) => workers[w].audioData # <<>>
        /\ ( /\ Called(w, "WinHttpQueryHeaders")
             /\ workers[w].statusCode = 200
             /\ workers[w].audioData = <<>>
             /\ workers[w].pc # "WinHttpQueryDataAvailable" ) =>
                /\ workers[w].pc = "done"
                /\ workers[w].outcome = "EmptyResponse"
                /\ LogLine("Response", <<"Received empty audio data">>)
                      \in Range(errLog)
                /\ \A name \in FileCalls : ~Called(w, name)
                /\ workers[w].played = NoFile

\* C4 witness: status 200 with a zero-byte body ended as the empty response.
C4_Witness ==
    \E w \in DOMAIN workers :
        /\ workers[w].statusCode = 200
        /\ workers[w].outcome = "EmptyResponse"
        /\ ~Called(w, "WinHttpReadData")
        /\ Called(w, "WinHttpQueryDataAvailable")

\* C5: for every selection the combo box reports, the index SpeakFromUI reads
\* voiceProfiles with is within [0, kVoiceCount); an invalid selection reads
\* index 0 and a valid one reads itself.
C5_VoiceIndexInBounds ==
    lastSpeak.outcome = "Dispatched" =>
        /\ lastSpeak.idx \in 0 .. (kVoiceCount - 1)
        /\ lastSpeak.sel \notin 0 .. (kVoiceCount - 1) => lastSpeak.idx = 0
        /\ lastSpeak.sel \in 0 .. (kVoiceCount - 1) => lastSpeak.idx = lastSpeak.sel
        /\ workers[lastSpeak.worker].voiceId
              = voiceProfiles[lastSpeak.idx + 1].cartesiaVoiceId

\* C5 witness: a request was dispatched with a selection past the last voice.
C5_Witness ==
    /\ lastSpeak.outcome = "Dispatched"
    /\ lastSpeak.sel >= kVoiceCount

\* The place of each call in the order connect, send, status check, body
\* read, file save, playback start, file delete.
StepRank(name) ==
    CASE name = "WinHttpOpen" -> 1
      [] name = "WinHttpConnect" -> 2
      [] name = "WinHttpOpenRequest" -> 3
      [] name = "WinHttpSendRequest" -> 4
      [] name = "WinHttpReceiveResponse" -> 5
      [] name = "WinHttpQueryHeaders" -> 6
      [] name = "WinHttpReadData" -> 7
      [] name = "WinHttpQueryDataAvailable" -> 8
      [] name = "SaveAudioToFile" -> 9
      [] name = "ofs.write" -> 10
      [] name = "PlayAudioFile" -> 11
      [] name = "DeleteAudioFile" -> 12
      [] OTHER -> 0

\* Worker w is the only request there has been.
Alone(w) == \A v \in DOMAIN workers \ {w} : workers[v].pc = "unused"

\* No call of worker w has failed so far.
Succeeding(w) ==
    workers[w].ioError = "none" /\ workers[w].outcome \in {"none", "Played"}

\* C13: for a request that runs alone and whose calls all succeed, the calls
\* made so far are in the order connect, send, status check, body read, file
\* save, playback start, file delete; playback
\* was started on a file that existed and held the whole payload; the file is
\* deleted only after playback was started; and once the worker has ended
\* after playback, every step was made and tts_output.wav does not exist.
C13_StepOrder ==
    \A w \in DOMAIN workers :
        (Alone(w) /\ Succeeding(w)) =>
            LET steps == workers[w].steps IN
            /\ \A i, j \in DOMAIN steps :
                  i < j =>
                    /\ StepRank(steps[i]) >= 1
                    /\ StepRank(steps[i]) <= StepRank(steps[j])
                    /\ StepRank(steps[i]) = StepRank(steps[j])
                          => steps[i] = "WinHttpReadData"
            /\ Called(w, "PlayAudioFile") =>
                  /\ Called(w, "ofs.write")
                  /\ workers[w].played = [exists |-> TRUE,
                                          data |-> workers[w].audioData]
                  /\ workers[w].audioData # <<>>
            /\ Called(w, "DeleteAudioFile") => Called(w, "PlayAudioFile")
            /\ workers[w].outcome = "Played" =>
                  /\ workers[w].pc = "done"
                  /\ \A r \in 1..12 : \E i \in DOMAIN steps : StepRank(steps[i]) = r
                  /\ ~ttsFile.exists

\* C13 witness: a request that ran alone has ended after playback of a
\* payload of more than one byte, with every call succeeding.
C13_Witness ==
    \E w \in DOMAIN workers :
        /\ Alone(w)
        /\ workers[w].ioError = "none"
        /\ workers[w].outcome = "Played"
        /\ Len(workers[w].audioData) > 1
        /\ workers[w].played.data = workers[w].audioData

\* A call of worker w has failed, whether or not the program noticed.
Failed(w) == workers[w].ioError # "none" \/ workers[w].outcome \notin {"none", "Played"}

\* C14: once a request that ran alone has ended and one of its calls
\* had failed, the error log holds at least one line, and every line of the
\* log has a context and a message.
C14_EveryFailureLogged ==
    /\ \A w \in DOMAIN workers :
          (Alone(w) /\ workers[w].pc = "done" /\ Failed(w)) => errLog # <<>>
    /\ \A i \in DOMAIN errLog :
          errLog[i].context # "" /\ errLog[i].message # <<>>

\* C15: whenever SendTtsRequest has returned true, nothing of the response
\* body is left unread and the payload is the body's bytes in order.
C15_BodyReadFully ==
    \A w \in DOMAIN workers :
        /\ workers[w].audioData \o workers[w].body
              = Body(w, Len(workers[w].audioData) + Len(workers[w].body))
        /\ ReturnedTrue(w) => workers[w].body = <<>>

\* How often worker w has made the call `name`.
Calls(w, name) ==
    Cardinality({i \in DOMAIN workers[w].steps : workers[w].steps[i] = name})

\* C16: a worker makes each of the calls that connect and request at most
\* once, a worker that ended in a failure stays ended, and the call that
\* failed is the last call the worker has made.
C16_FailureIsTerminal ==
    \A w \in DOMAIN workers :
        /\ \A name \in NetworkCalls : Calls(w, name) <= 1
        /\ workers[w].outcome \notin {"none", "Played"} => workers[w].pc = "done"
        /\ workers[w].ioError # "none" =>
              workers[w].steps[Len(workers[w].steps)] = workers[w].ioError

(***************************************************************************)
(* Claims about overlapping requests (checked under OverlapSpec)           *)
(***************************************************************************)

InFlight(w) == workers[w].pc \notin {"unused", "done"}

\* The step starts worker w: SpeakFromUI has accepted a request.
Dispatches(w) == workers[w].pc = "unused" /\ workers'[w].pc # "unused"

\* C11: every accepted Speak gets a worker of its own that holds its own
\* copies of the text and the voice id for as long as it runs; SpeakFromUI
\* returns before its worker has made any call and touches no other worker,
\* the file or the log; while a worker slot is free SpeakFromUI can run
\* whatever the workers in flight are doing, and every worker in flight can
\* take its next step whatever the others are doing (no queue, no cancel).
C11_DetachedWorkers ==
    /\ [](\A w \in DOMAIN workers :
            /\ InFlight(w) => ENABLED OverlapStep(w)
            /\ workers[w].pc = "unused" => ENABLED SpeakFromUI(<<104, 105>>, 0))
    /\ [][\A w \in DOMAIN workers :
            /\ Dispatches(w) =>
                  /\ workers'[w].pc = "WinHttpOpen"
                  /\ workers'[w].steps = <<>>
                  /\ workers'[w].text = lastSpeak'.text
                  /\ workers'[w].voiceId = VoiceIdAt(lastSpeak'.idx)
                  /\ \A v \in DOMAIN workers \ {w} : workers'[v] = workers[v]
                  /\ UNCHANGED <<ttsFile, errLog>>
            /\ workers[w].pc # "unused" =>
                  /\ workers'[w].pc # "unused"
                  /\ workers'[w].text = workers[w].text
                  /\ workers'[w].voiceId = workers[w].voiceId]_vars

\* C11 witness: a second request was accepted while the first was between its
\* calls, and both workers are in flight with calls made.
C11_Witness ==
    \E w, v \in DOMAIN workers :
        /\ w # v
        /\ InFlight(w) /\ InFlight(v)
        /\ workers[w].steps # <<>> /\ workers[v].steps # <<>>
        /\ Called(w, "WinHttpSendRequest")

\* C12: whenever a worker has started playback, the file it handed to
\* PlaySoundW existed and held exactly the whole payload of one request that
\* had been written; and the file is never gone while a worker that has
\* written its payload has yet to start its playback.
C12_LastWriterWins ==
    \A w \in DOMAIN workers :
        /\ Called(w, "PlayAudioFile") =>
              /\ workers[w].played.exists
              /\ \E v \in DOMAIN workers :
                    /\ Called(v, "ofs.write")
                    /\ workers[w].played.data = workers[v].audioData
        /\ (Called(w, "ofs.write") /\ ~ttsFile.exists) =>
              Called(w, "PlayAudioFile")

(***************************************************************************)
(* Claims about the request body (checked under JsonSpec)                  *)
(*                                                                         *)
(* A reader of JSON text (RFC 8259) for what a body can hold: objects,     *)
(* strings with their escapes, and unsigned integers.  A value is          *)
(* [type, str, num, members]; a result is [ok, next, val].                 *)
(***************************************************************************)

NoJson == [type |-> "none", str |-> <<>>, num |-> 0, members |-> <<>>]

JsonFail == [ok |-> FALSE, next |-> 0, val |-> NoJson]

RECURSIVE SkipWs(_, _)
SkipWs(s, i) == IF i <= Len(s) /\ IsSpace(s[i]) THEN SkipWs(s, i + 1) ELSE i

IsDigit(c) == c \in 48..57

HexVal(c) ==
    IF c \in 48..57 THEN c - 48
    ELSE IF c \in 65..70 THEN c - 55
    ELSE IF c \in 97..102 THEN c - 87
    ELSE 0 - 1

\* The character a two-character escape stands for, -1 when there is none.
Unescape(c) ==
    CASE c = 34 -> 34 [] c = 92 -> 92 [] c = 47 -> 47 [] c = 98 -> 8
      [] c = 102 -> 12 [] c = 110 -> 10 [] c = 114 -> 13 [] c = 116 -> 9
      [] OTHER -> 0 - 1

\* The rest of a string whose opening quote has been read; acc: its bytes.
RECURSIVE JsonStringRest(_, _, _)
JsonStringRest(s, i, acc) ==
    IF i > Len(s) \/ s[i] < 32 THEN JsonFail
    ELSE IF s[i] = 34
    THEN [ok |-> TRUE, next |-> i + 1,
          val |-> [NoJson EXCEPT !.type = "string", !.str = acc]]
    ELSE IF s[i] # 92 THEN JsonStringRest(s, i + 1, Append(acc, s[i]))
    ELSE IF i + 1 > Len(s) THEN JsonFail
    ELSE IF s[i + 1] = 117
    THEN IF i + 5 <= Len(s) /\ \A k \in 2..5 : HexVal(s[i + k]) >= 0
         THEN JsonStringRest(s, i + 6,
                  acc \o Utf8Char(4096 * HexVal(s[i + 2]) + 256 * HexVal(s[i + 3])
                                  + 16 * HexVal(s[i + 4]) + HexVal(s[i + 5])))
         ELSE JsonFail
    ELSE IF Unescape(s[i + 1]) >= 0
    THEN JsonStringRest(s, i + 2, Append(acc, Unescape(s[i + 1])))
    ELSE JsonFail

RECURSIVE JsonDigits(_, _, _)
JsonDigits(s, i, acc) ==
    IF i <= Len(s) /\ IsDigit(s[i])
    THEN JsonDigits(s, i + 1, 10 * acc + (s[i] - 48))
    ELSE [ok |-> TRUE, next |-> i, val |-> [NoJson EXCEPT !.type = "number", !.num = acc]]

RECURSIVE JsonValue(_, _)
RECURSIVE JsonMembers(_, _, _)

\* The members of an object after '{' or ','; acc: the members read so far.
JsonMembers(s, i0, acc) ==
    LET i == SkipWs(s, i0) IN
    IF i > Len(s) \/ s[i] # 34 THEN JsonFail
    ELSE LET key == JsonStringRest(s, i + 1, <<>>) IN
         IF ~key.ok THEN JsonFail
         ELSE LET c == SkipWs(s, key.next) IN
              IF c > Len(s) \/ s[c] # 58 THEN JsonFail
              ELSE LET v == JsonValue(s, c + 1) IN
                   IF ~v.ok THEN JsonFail
                   ELSE LET e == SkipWs(s, v.next)
                            all == Append(acc, [key |-> key.val.str, val |-> v.val])
                        IN  IF e > Len(s) THEN JsonFail
                            ELSE IF s[e] = 44 THEN JsonMembers(s, e + 1, all)
                            ELSE IF s[e] = 125
                            THEN [ok |-> TRUE, next |-> e + 1,
                                  val |-> [NoJson EXCEPT !.type = "object",
                                                         !.members = all]]
                            ELSE JsonFail

JsonValue(s, i0) ==
    LET i == SkipWs(s, i0) IN
    IF i > Len(s) THEN JsonFail
    ELSE IF s[i] = 34 THEN JsonStringRest(s, i + 1, <<>>)
    ELSE IF IsDigit(s[i]) THEN JsonDigits(s, i, 0)
    ELSE IF s[i] = 123
    THEN LET j == SkipWs(s, i + 1) IN
         IF j <= Len(s) /\ s[j] = 125
         THEN [ok |-> TRUE, next |-> j + 1, val |-> [NoJson EXCEPT !.type = "object"]]
         ELSE JsonMembers(s, i + 1, <<>>)
    ELSE JsonFail

\* The whole text is one JSON value.
JsonDocument(s) ==
    LET r == JsonValue(s, 1) IN
    IF r.ok /\ SkipWs(s, r.next) > Len(s) THEN r ELSE JsonFail

HasField(obj, key) ==
    obj.type = "object" /\ \E i \in DOMAIN obj.members : obj.members[i].key = key

\* The value of the last member named `key`.
Field(obj, key) ==
    IF HasField(obj, key)
    THEN obj.members[CHOOSE i \in DOMAIN obj.members :
                        /\ obj.members[i].key = key
                        /\ \A j \in DOMAIN obj.members :
                              obj.members[j].key = key => j <= i].val
    ELSE NoJson

IsString(v, bytes) == v.type = "string" /\ v.str = bytes

\* UTF-8 bytes back to characters; <<0 - 1>> marks bytes that are not UTF-8.
RECURSIVE Utf8Decode(_)
Utf8Decode(b) ==
    IF b = <<>> THEN <<>>
    ELSE IF b[1] < 128 THEN <<b[1]>> \o Utf8Decode(Tail(b))
    ELSE IF b[1] \in 192..223 /\ Len(b) >= 2 /\ b[2] \in 128..191
    THEN <<(b[1] - 192) * 64 + (b[2] - 128)>> \o Utf8Decode(SubSeq(b, 3, Len(b)))
    ELSE IF b[1] \in 224..239 /\ Len(b) >= 3 /\ b[2] \in 128..191 /\ b[3] \in 128..191
    THEN <<(b[1] - 224) * 4096 + (b[2] - 128) * 64 + (b[3] - 128)>>
            \o Utf8Decode(SubSeq(b, 4, Len(b)))
    ELSE <<0 - 1>>

kModelId == <<109, 111, 100, 101, 108, 95, 105, 100>>
kTranscript == <<116, 114, 97, 110, 115, 99, 114, 105, 112, 116>>
kVoice == <<118, 111, 105, 99, 101>>
kMode == <<109, 111, 100, 101>>
kId == <<105, 100>>
kOutputFormat == <<111, 117, 116, 112, 117, 116, 95, 102, 111, 114, 109, 97, 116>>
kContainer == <<99, 111, 110, 116, 97, 105, 110, 101, 114>>
kEncoding == <<101, 110, 99, 111, 100, 105, 110, 103>>
kSampleRate == <<115, 97, 109, 112, 108, 101, 95, 114, 97, 116, 101>>

\* The body is a JSON object that carries `text` as its transcript, the voice
\* id, the model id and the output format.
BodyCarries(json, text, voiceId) ==
    LET doc == JsonDocument(json).val
        voice == Field(doc, kVoice)
        format == Field(doc, kOutputFormat)
    IN  /\ doc.type = "object"
        /\ Field(doc, kTranscript).type = "string"
        /\ Utf8Decode(Field(doc, kTranscript).str) = text
        /\ IsString(Field(voice, kMode), kId)
        /\ IsString(Field(voice, kId), VoiceIdChars(voiceId))
        /\ IsString(Field(doc, kModelId), <<115, 111, 110, 105, 99, 45, 50>>)
        /\ IsString(Field(format, kContainer), <<119, 97, 118>>)
        /\ IsString(Field(format, kEncoding), <<112, 99, 109, 95, 102, 51, 50, 108, 101>>)
        /\ Field(format, kSampleRate).type = "number"
        /\ Field(format, kSampleRate).num = 44100

\* C17: the body every worker hands to WinHttpSendRequest is a well-formed
\* JSON object whose transcript decodes to exactly the worker's text and whose
\* voice id is the worker's voice id, with the model id and the output format.
C17_BodyIsJson ==
    \A w \in DOMAIN workers :
        Called(w, "WinHttpSendRequest") =>
            BodyCarries(RequestBody(w), workers[w].text, workers[w].voiceId)

(***************************************************************************)
(* Claims about the settings file (checked under SettingsSpec)             *)
(***************************************************************************)

NoEqualsNoBreak(text) == \A i \in DOMAIN text : text[i] \notin {61, 10}

\* The values the claim's round trip ranges over: no '=' and no line break.
Representable(vals) ==
    /\ NoEqualsNoBreak(vals.userId)
    /\ NoEqualsNoBreak(<<vals.pttKey>>)
    /\ NoEqualsNoBreak(vals.apiKey)

\* The lines of the settings file as the loader reads them.
FileLines == IF settingsFile.exists
             THEN SplitLines(ReadWide(settingsFile.data)) ELSE <<>>

HasLine(prefix) == \E i \in DOMAIN FileLines : StartsWith(FileLines[i], prefix)

\* The value of the last line of the file that starts with `prefix`.
LastValue(prefix) ==
    LET last == CHOOSE i \in DOMAIN FileLines :
                   /\ StartsWith(FileLines[i], prefix)
                   /\ \A j \in DOMAIN FileLines :
                         StartsWith(FileLines[j], prefix) => j <= i
    IN  Substr(FileLines[last], Len(prefix))

HasValue(prefix) ==
    \E i \in DOMAIN FileLines :
        StartsWith(FileLines[i], prefix) /\ Len(FileLines[i]) > Len(prefix)

\* The value of the last line that starts with `prefix` and has a value.
LastNonEmptyValue(prefix) ==
    LET last == CHOOSE i \in DOMAIN FileLines :
                   /\ StartsWith(FileLines[i], prefix)
                   /\ Len(FileLines[i]) > Len(prefix)
                   /\ \A j \in DOMAIN FileLines :
                         (StartsWith(FileLines[j], prefix)
                            /\ Len(FileLines[j]) > Len(prefix)) => j <= i
    IN  Substr(FileLines[last], Len(prefix))

\* C6: after ExportSettingsToFile wrote values without '=' and line break,
\* the load of the next start leaves userId, isPremium, pttKey and apiKey
\* equal to the exported values, whatever memory held in between.
C6_SettingsRoundTrip ==
    ( /\ settingsTrace.op = "InitInstance"
      /\ settingsTrace.exported.valid
      /\ Representable(settingsTrace.exported.vals) )
        => Cur = settingsTrace.exported.vals

\* C7: after a start that found a line CartesiaApiKey=K in the settings file,
\* g_cartesiaApiKey is K for as long as the settings UI has not changed it.
C7_ApiKeyLoadedAtStartup ==
    ( /\ running
      /\ ~settingsTrace.uiChanged
      /\ HasLine(kCartesiaApiKey)
      /\ settingsTrace.op = "InitInstance" )
        => g_cartesiaApiKey = NarrowChars(LastValue(kCartesiaApiKey))

\* C8: after the load of a start, with no settings file every setting is what
\* it was before the load; with a file, each setting is decided by the
\* recognized lines alone (the last UserID=, Premium= and non-empty PTTKey=
\* line, wherever unknown lines stand between them) and keeps its value when
\* no line names it; a file without a CartesiaApiKey= line leaves the key.
C8_LoadTolerant ==
    settingsTrace.op = "InitInstance" =>
        /\ ~settingsFile.exists => Cur = settingsTrace.preLoad
        /\ g_userId = IF HasLine(kUserID) THEN LastValue(kUserID)
                      ELSE settingsTrace.preLoad.userId
        /\ g_isPremium = IF HasLine(kPremium) THEN LastValue(kPremium) = <<49>>
                         ELSE settingsTrace.preLoad.isPremium
        /\ g_pttKey = IF HasValue(kPTTKey) THEN LastNonEmptyValue(kPTTKey)[1]
                      ELSE settingsTrace.preLoad.pttKey
        /\ ~HasLine(kCartesiaApiKey)
              => g_cartesiaApiKey = settingsTrace.preLoad.apiKey

IsKnownKey(line) ==
    \/ IsRecognized(line)
    \/ StartsWith(line, kCartesiaApiKey)

\* C8 witness: a start has loaded a file in which a line with an unknown key
\* stands between two recognized lines, and the later line took effect.
C8_Witness ==
    /\ settingsTrace.op = "InitInstance"
    /\ \E i, j, k \in DOMAIN FileLines :
          /\ i < j /\ j < k
          /\ StartsWith(FileLines[i], kUserID)
          /\ ~IsKnownKey(FileLines[j])
          /\ StartsWith(FileLines[k], kPremium)
          /\ g_userId = Substr(FileLines[i], 7)
          /\ g_isPremium /\ ~settingsTrace.preLoad.isPremium

\* C18: right after InitInstance the user id and the premium flag in memory
\* are the ones confirmed in the login dialog, whatever the settings file holds.
C18_LoginValuesKept ==
    settingsTrace.op = "InitInstance" =>
        /\ g_userId = settingsTrace.preLoad.userId
        /\ g_isPremium = settingsTrace.preLoad.isPremium

(***************************************************************************)
(* Claims about the block list (checked under BlockSpec)                   *)
(***************************************************************************)

\* C9: after SaveBlockedIds wrote a list L of non-empty strings without line
\* break, the LoadBlockedIds of the next start leaves g_blockedIds equal to L
\* (same entries, same order, same multiplicity).
C9_BlockListRoundTrip ==
    ( /\ blockTrace.op = "InitInstance"
      /\ blockTrace.saved.valid
      /\ \A i \in DOMAIN blockTrace.saved.ids :
            /\ blockTrace.saved.ids[i] # <<>>
            /\ 10 \notin Range(blockTrace.saved.ids[i]) )
        => g_blockedIds = blockTrace.saved.ids

=============================================================================
